---- MODULE Spec2Model ----
(***************************************************************************)
(* A model of src/main.cpp: the test-case hierarchy (ITestRunner,          *)
(* TestCaseBase, TestCase, AdvancedTestCase), the TestSuite container with *)
(* its process-wide creation counter, Task, Submission and the scoring     *)
(* functions runTestCase / checkSolution, driven by a client that calls    *)
(* the public operations in any order (main() is one such run).            *)
(*                                                                         *)
(* Texts (std::string) are sequences of character codes, so that equality  *)
(* and operator< are the library's: element-wise and lexicographic.        *)
(* Console output (cout) is not modelled.                                  *)
(***************************************************************************)
EXTENDS Integers, Sequences, FiniteSets

VARIABLES
    suites,                  \* the TestSuite objects constructed so far: suites[s] is its `tests` vector
    task,                    \* the client's Task object, NoTask before it is constructed
    totalTestSuitesCreated,  \* static int TestSuite::totalTestSuitesCreated
    nextAddr,                \* the address the next `new` of a test case returns
    ret                      \* the last call made by the client and what it returned
                             \* (for a sort: whether the call before it sorted the same suite)

vars == <<suites, task, totalTestSuitesCreated, nextAddr, ret>>

(***************************************************************************)
(* Bounds of the model.                                                    *)
(***************************************************************************)
MaxSuites == 1      \* TestSuite objects constructed
MaxTests == 2       \* test-case objects allocated with new

(***************************************************************************)
(* Texts.                                                                  *)
(***************************************************************************)
input1 == <<105, 110, 112, 117, 116, 49>>                 \* "input1"
input2 == <<105, 110, 112, 117, 116, 50>>                 \* "input2"
expected2 == <<101, 120, 112, 101, 99, 116, 101, 100, 50>> \* "expected2"

Texts == {input1, input2, expected2}

\* std::string operator== : same length, same characters
StrEq(a, b) ==
    /\ Len(a) = Len(b)
    /\ \A i \in 1..Len(a) : a[i] = b[i]

\* std::string operator< : lexicographic comparison of the characters
RECURSIVE StrLess(_, _)
StrLess(a, b) ==
    IF b = <<>> THEN FALSE
    ELSE IF a = <<>> THEN TRUE
    ELSE IF Head(a) < Head(b) THEN TRUE
    ELSE IF Head(a) > Head(b) THEN FALSE
    ELSE StrLess(Tail(a), Tail(b))

(***************************************************************************)
(* Test runners.                                                           *)
(***************************************************************************)
SimpleTestRunner == [type |-> "SimpleTestRunner"]

AdvancedTestRunner(level) == [type |-> "AdvancedTestRunner", complexityLevel |-> level]

SimpleExecuteTest(input, expected) == StrEq(input, expected)

\* faulty variant: the level threshold off by one
AdvancedExecuteTestFromTwo(runner, input, expected) ==
    StrEq(input, expected) /\ runner.complexityLevel >= 2

AdvancedExecuteTest(runner, input, expected) ==
    StrEq(input, expected) /\ runner.complexityLevel > 2

\* virtual dispatch of ITestRunner::executeTest
executeTest(runner, input, expected) ==
    IF runner.type = "AdvancedTestRunner"
    THEN AdvancedExecuteTest(runner, input, expected)
    ELSE SimpleExecuteTest(input, expected)

(***************************************************************************)
(* Test cases.  addr is the object's address (its identity).               *)
(***************************************************************************)
NewTestCase(addr, input_str, expected_str, runner) ==
    [addr |-> addr, class |-> "TestCase",
     input |-> input_str, expected |-> expected_str, testRunner |-> runner]

NewAdvancedTestCase(addr, input_str, expected_str, level) ==
    [addr |-> addr, class |-> "AdvancedTestCase",
     input |-> input_str, expected |-> expected_str,
     testRunner |-> AdvancedTestRunner(level), complexityLevel |-> level]

\* the test cases the client constructs, at address addr: the two of main()
\* and variations of them in runner, level and texts
NewTests(addr) ==
    { NewTestCase(addr, input1, input1, SimpleTestRunner),
      NewAdvancedTestCase(addr, input2, expected2, 3),
      NewTestCase(addr, input2, input1, SimpleTestRunner),
      NewTestCase(addr, input1, input1, AdvancedTestRunner(2)),
      NewAdvancedTestCase(addr, input1, input1, 2),
      NewAdvancedTestCase(addr, input1, input1, 3) }

\* faulty variant: the expected text handed over twice
TestCaseBaseRunTestExpectedTwice(t) == executeTest(t.testRunner, t.expected, t.expected)

TestCaseBaseRunTest(t) == executeTest(t.testRunner, t.input, t.expected)

AdvancedTestCaseRunTest(t) == TestCaseBaseRunTest(t)

\* virtual dispatch of TestCaseBase::runTest
runTest(t) ==
    IF t.class = "AdvancedTestCase" THEN AdvancedTestCaseRunTest(t) ELSE TestCaseBaseRunTest(t)

TestCaseClone(t, addr) == NewTestCase(addr, t.input, t.expected, SimpleTestRunner)

AdvancedTestCaseClone(t, addr) == NewAdvancedTestCase(addr, t.input, t.expected, t.complexityLevel)

\* virtual dispatch of TestCaseBase::clone
clone(t, addr) ==
    IF t.class = "AdvancedTestCase" THEN AdvancedTestCaseClone(t, addr) ELSE TestCaseClone(t, addr)

getInput(t) == t.input

getExpected(t) == t.expected

nullptr == [addr |-> 0]

(***************************************************************************)
(* TestSuite.                                                              *)
(***************************************************************************)
getTestCount(tests) == Len(tests)

\* the comparator handed to std::sort
InputLess(a, b) == StrLess(getInput(a), getInput(b))

Perms(n) == {p \in [1..n -> 1..n] : \A i, j \in 1..n : p[i] = p[j] => i = j}

\* faulty variant: the comparator reversed (descending order)
SortOutcomesDescending(tests) ==
    {r \in {[i \in 1..Len(tests) |-> tests[p[i]]] : p \in Perms(Len(tests))} :
        \A i, j \in 1..Len(r) : i < j => ~InputLess(r[i], r[j])}

\* faulty variant: the range is reversed instead of sorted
SortOutcomesReversed(tests) ==
    {[i \in 1..Len(tests) |-> tests[Len(tests) + 1 - i]]}

\* std::sort: the range ends as some permutation ordered by the comparator;
\* the order of equivalent elements is not specified
SortOutcomes(tests) ==
    {r \in {[i \in 1..Len(tests) |-> tests[p[i]]] : p \in Perms(Len(tests))} :
        \A i, j \in 1..Len(r) : i < j => ~InputLess(r[j], r[i])}

\* std::find_if: the first position whose element matches, Len + 1 for end()
RECURSIVE FindIf(_, _, _)
FindIf(tests, expected, i) ==
    IF i > Len(tests) THEN i
    ELSE IF StrEq(getExpected(tests[i]), expected) THEN i
    ELSE FindIf(tests, expected, i + 1)

\* faulty variant: the search compares the input text instead of the expected text
findTestByInput(tests, expected) ==
    LET m == {i \in 1..Len(tests) : StrEq(getInput(tests[i]), expected)}
    IN  IF m # {} THEN tests[CHOOSE i \in m : \A j \in m : i <= j] ELSE nullptr

findTestByExpected(tests, expected) ==
    LET it == FindIf(tests, expected, 1)
    IN  IF it # Len(tests) + 1 THEN tests[it] ELSE nullptr

(***************************************************************************)
(* Scoring.                                                                *)
(***************************************************************************)
UserSolution == [solutionCode |-> "user_solution_code"]

ExecutionResult == [actualOutput |-> "", isPassed |-> FALSE]

NewSubmission(userSolution, testCount) ==
    [solution |-> userSolution,
     results |-> [i \in 1..testCount |-> ExecutionResult],
     totalPassed |-> 0]

\* faulty variant: the output texts swapped
runTestCaseSwapped(solution, test) ==
    LET r1 == [ExecutionResult EXCEPT !.actualOutput = IF runTest(test) THEN "Failed" ELSE "Passed"]
    IN  [r1 EXCEPT !.isPassed = runTest(test)]

runTestCase(solution, test) ==
    LET r1 == [ExecutionResult EXCEPT !.actualOutput = IF runTest(test) THEN "Passed" ELSE "Failed"]
    IN  [r1 EXCEPT !.isPassed = runTest(test)]

\* faulty variant: the loop counts every test, passed or not
RECURSIVE CheckLoopCountAll(_, _, _, _, _)
CheckLoopCountAll(solution, testSuite, submission, totalPassed, i) ==
    IF i > getTestCount(testSuite)
    THEN [submission EXCEPT !.totalPassed = totalPassed]
    ELSE LET result == runTestCase(solution, testSuite[i])
         IN  CheckLoopCountAll(solution, testSuite,
                               [submission EXCEPT !.results[i] = result],
                               totalPassed + 1,
                               i + 1)

\* the loop of checkSolution from index i on (i is 1-based here)
RECURSIVE CheckLoop(_, _, _, _, _)
CheckLoop(solution, testSuite, submission, totalPassed, i) ==
    IF i > getTestCount(testSuite)
    THEN [submission EXCEPT !.totalPassed = totalPassed]
    ELSE LET result == runTestCase(solution, testSuite[i])
         IN  CheckLoop(solution, testSuite,
                       [submission EXCEPT !.results[i] = result],
                       IF result.isPassed THEN totalPassed + 1 ELSE totalPassed,
                       i + 1)

checkSolution(solution, t) ==
    CheckLoop(solution, t.testSuite,
              NewSubmission(solution, getTestCount(t.testSuite)), 0, 1)

(***************************************************************************)
(* The state machine.                                                      *)
(***************************************************************************)
NoTask == [description |-> ""]

NewTask(desc, suite) == [description |-> desc, testSuite |-> suite]

Init ==
    /\ suites = <<>>
    /\ task = NoTask
    /\ totalTestSuitesCreated = 0
    /\ nextAddr = 1
    /\ ret = [op |-> "start"]

\* TestSuite suite;
ConstructTestSuite ==
    /\ Len(suites) < MaxSuites
    /\ suites' = Append(suites, <<>>)
    /\ totalTestSuitesCreated' = totalTestSuitesCreated + 1
    /\ ret' = [op |-> "TestSuite"]
    /\ UNCHANGED <<task, nextAddr>>

\* faulty variant: the task holds the suite by reference, so it sees the new test
AddTestSeenByTask(s, test) ==
    /\ nextAddr <= MaxTests
    /\ suites' = [suites EXCEPT ![s] = Append(suites[s], test)]
    /\ nextAddr' = nextAddr + 1
    /\ ret' = [op |-> "addTest"]
    /\ task' = IF task # NoTask /\ task.testSuite = suites[s]
               THEN [task EXCEPT !.testSuite = Append(suites[s], test)]
               ELSE task
    /\ UNCHANGED totalTestSuitesCreated

\* suite.addTest(new ...)
AddTest(s, test) ==
    /\ nextAddr <= MaxTests
    /\ suites' = [suites EXCEPT ![s] = Append(suites[s], test)]
    /\ nextAddr' = nextAddr + 1
    /\ ret' = [op |-> "addTest"]
    /\ UNCHANGED <<task, totalTestSuitesCreated>>

\* suite.sortTestsByInput()
SortTestsByInput(s) ==
    /\ \E r \in SortOutcomes(suites[s]) :
          suites' = [suites EXCEPT ![s] = r]
    /\ ret' = [op |-> "sortTestsByInput", suite |-> s,
               again |-> (ret.op = "sortTestsByInput" /\ ret.suite = s)]
    /\ UNCHANGED <<task, totalTestSuitesCreated, nextAddr>>

\* suite.findTestByExpected(expected)
FindTestByExpected(s, expected) ==
    /\ ret' = [op |-> "findTestByExpected", suite |-> s, expected |-> expected,
               result |-> findTestByExpected(suites[s], expected)]
    /\ UNCHANGED <<suites, task, totalTestSuitesCreated, nextAddr>>

\* faulty variant: copying the suite into the task counts as a creation
ConstructTaskCounting(s) ==
    /\ task' = NewTask("Example Task", suites[s])
    /\ ret' = [op |-> "Task"]
    /\ totalTestSuitesCreated' = totalTestSuitesCreated + 1
    /\ UNCHANGED <<suites, nextAddr>>

\* Task task(desc, suite);  the suite is copied member-wise into the task
ConstructTask(s) ==
    /\ task' = NewTask("Example Task", suites[s])
    /\ ret' = [op |-> "Task"]
    /\ UNCHANGED <<suites, totalTestSuitesCreated, nextAddr>>

\* checkSolution(solution, task)
CheckSolution ==
    /\ task # NoTask
    /\ ret' = [op |-> "checkSolution", submission |-> checkSolution(UserSolution, task)]
    /\ UNCHANGED <<suites, task, totalTestSuitesCreated, nextAddr>>

\* suite.getTests()[i]->clone()
Clone(s, i) ==
    /\ nextAddr <= MaxTests
    /\ nextAddr' = nextAddr + 1
    /\ ret' = [op |-> "clone", test |-> suites[s][i],
               result |-> clone(suites[s][i], nextAddr)]
    /\ UNCHANGED <<suites, task, totalTestSuitesCreated>>

Next ==
    \/ ConstructTestSuite
    \/ \E s \in 1..Len(suites) : \E test \in NewTests(nextAddr) : AddTest(s, test)
    \/ \E s \in 1..Len(suites) : SortTestsByInput(s)
    \/ \E s \in 1..Len(suites) : \E expected \in Texts : FindTestByExpected(s, expected)
    \/ \E s \in 1..Len(suites) : ConstructTask(s)
    \/ CheckSolution
    \/ \E s \in 1..Len(suites) : \E i \in 1..Len(suites[s]) : Clone(s, i)

Spec == Init /\ [][Next]_vars

(***************************************************************************)
(* Helpers of the properties.                                              *)
(***************************************************************************)
\* after is before rearranged
IsPermutationOf(after, before) ==
    /\ Len(after) = Len(before)
    /\ \E p \in Perms(Len(before)) : \A i \in 1..Len(before) : after[i] = before[p[i]]

\* the inputs are in ascending order
OrderedByInput(tests) ==
    \A i, j \in 1..Len(tests) : i < j => ~StrLess(tests[j].input, tests[i].input)

\* where the object t stands in tests
PosOf(tests, t) == CHOOSE k \in 1..Len(tests) : tests[k].addr = t.addr

\* tests with the same input stand in after in the order they had in before
KeepsOrderOfEqualInputs(after, before) ==
    \A i, j \in 1..Len(before) :
        (i < j /\ before[i].input = before[j].input)
            => PosOf(after, before[i]) < PosOf(after, before[j])

InputsOf(tests) == [i \in 1..Len(tests) |-> tests[i].input]

HasEqualInputs(tests) ==
    \E i, j \in 1..Len(tests) : i # j /\ tests[i].input = tests[j].input

\* the two test cases of main()
MainTest1 == NewTestCase(1, input1, input1, SimpleTestRunner)
MainTest2 == NewAdvancedTestCase(2, input2, expected2, 3)

(***************************************************************************)
(* C1: checkSolution on a task of N tests returns N results, and           *)
(* totalPassed is the number of results that passed (N = 0: no results,    *)
(* totalPassed 0).                                                         *)
(***************************************************************************)
C1_ResultsAndTotal ==
    ret.op = "checkSolution" =>
        /\ Len(ret.submission.results) = Len(task.testSuite)
        /\ ret.submission.totalPassed =
              Cardinality({i \in 1..Len(ret.submission.results) :
                              ret.submission.results[i].isPassed})
        /\ (Len(task.testSuite) = 0 =>
              ret.submission.results = <<>> /\ ret.submission.totalPassed = 0)

C1_Witness ==
    /\ ret.op = "checkSolution"
    /\ Len(task.testSuite) = 2
    /\ ret.submission.totalPassed = 1

(***************************************************************************)
(* C2: the i-th result is runTest() of the i-th test of the task's suite,  *)
(* and its output text is "Passed" exactly when it passed, "Failed"        *)
(* exactly when it did not.                                                *)
(***************************************************************************)
C2_PositionalResults ==
    ret.op = "checkSolution" =>
        \A i \in 1..Len(task.testSuite) :
            LET r == ret.submission.results[i]
            IN  /\ r.isPassed = runTest(task.testSuite[i])
                /\ (r.actualOutput = "Passed") = r.isPassed
                /\ (r.actualOutput = "Failed") = ~r.isPassed

C2_Witness ==
    /\ ret.op = "checkSolution"
    /\ Len(task.testSuite) = 2
    /\ ret.submission.results[1].actualOutput = "Failed"
    /\ ret.submission.results[2].actualOutput = "Passed"

(***************************************************************************)
(* C3: a test evaluated by an AdvancedTestRunner of some level (a TestCase *)
(* built with one, or an AdvancedTestCase) passes exactly when its input   *)
(* equals its expected text and the level is above 2.                      *)
(***************************************************************************)
C3_AdvancedPasses ==
    ret.op = "checkSolution" =>
        \A i \in 1..Len(task.testSuite) :
            LET t == task.testSuite[i]
            IN  t.testRunner.type = "AdvancedTestRunner" =>
                    /\ executeTest(t.testRunner, t.input, t.expected)
                          = (t.input = t.expected /\ t.testRunner.complexityLevel > 2)
                    /\ ret.submission.results[i].isPassed
                          = (t.input = t.expected /\ t.testRunner.complexityLevel > 2)

C3_Witness ==
    /\ ret.op = "checkSolution"
    /\ \E i \in 1..Len(task.testSuite) :
          /\ task.testSuite[i].class = "AdvancedTestCase"
          /\ task.testSuite[i].input = task.testSuite[i].expected
          /\ task.testSuite[i].complexityLevel <= 2
          /\ ~ret.submission.results[i].isPassed
    /\ \E i \in 1..Len(task.testSuite) :
          /\ task.testSuite[i].class = "AdvancedTestCase"
          /\ ret.submission.results[i].isPassed

C6_FindFirst ==
    [][ret'.op = "findTestByExpected" =>
          LET tests == suites[ret'.suite]
              m == {i \in 1..Len(tests) : tests[i].expected = ret'.expected}
          IN  /\ suites' = suites
              /\ (ret'.result = nullptr) = (m = {})
              /\ m # {} => \E i \in m : /\ \A j \in m : i <= j
                                        /\ ret'.result = tests[i]]_vars

\* found: the first of two tests that both have the expected text
C6_Witness ==
    /\ ret.op = "findTestByExpected"
    /\ Len(suites[ret.suite]) = 2
    /\ suites[ret.suite][1].expected = ret.expected
    /\ suites[ret.suite][2].expected = ret.expected
    /\ ret.result = suites[ret.suite][1]

(***************************************************************************)
(* C7: the clone of a test has its input, its expected text and its        *)
(* runner configuration, and so runs to the same verdict.                  *)
(***************************************************************************)
C7_ClonePreserves ==
    ret.op = "clone" =>
        /\ ret.result.class = ret.test.class
        /\ ret.result.input = ret.test.input
        /\ ret.result.expected = ret.test.expected
        /\ ret.result.testRunner = ret.test.testRunner
        /\ runTest(ret.result) = runTest(ret.test)

(***************************************************************************)
(* C8: the counter is the number of TestSuite objects constructed so far:  *)
(* 0 at start, one more for each construction, and nothing else (copying a *)
(* suite into a Task, addTest, sort, find, checkSolution) changes it.      *)
(***************************************************************************)
C8_CounterIsConstructions ==
    /\ totalTestSuitesCreated = Len(suites)
    /\ totalTestSuitesCreated >= 0

C8_Witness ==
    /\ totalTestSuitesCreated = 1
    /\ task # NoTask
    /\ Len(task.testSuite) = 2
    /\ ret.op = "checkSolution"

(***************************************************************************)
(* C9: main's run, one suite holding [TestCase("input1","input1",          *)
(* Simple), AdvancedTestCase("input2","expected2",3)] copied into the task *)
(* and checked, gives totalPassed 1, the first result passed, the second   *)
(* failed, and 1 suite created.                                            *)
(***************************************************************************)
C9_MainScenario ==
    (/\ suites = <<(<<MainTest1, MainTest2>>)>>
     /\ task = NewTask("Example Task", <<MainTest1, MainTest2>>)
     /\ ret.op = "checkSolution")
    => /\ ret.submission.totalPassed = 1
       /\ Len(ret.submission.results) = 2
       /\ ret.submission.results[1].isPassed
       /\ ~ret.submission.results[2].isPassed
       /\ getTestCount(suites[1]) = 2
       /\ totalTestSuitesCreated = 1

C9_Witness ==
    /\ suites = <<(<<MainTest1, MainTest2>>)>>
    /\ task = NewTask("Example Task", <<MainTest1, MainTest2>>)
    /\ ret.op = "checkSolution"
    /\ ret.submission.totalPassed = 1

(***************************************************************************)
(* C10: the task's tests are its own copy: addTest and sortTestsByInput    *)
(* (on any suite) leave the task's tests and their order as they were, and *)
(* checkSolution evaluates exactly the task's tests, whatever the suites   *)
(* hold by then.                                                           *)
(***************************************************************************)
C10_TaskOwnsCopy ==
    [][/\ ret'.op \in {"addTest", "sortTestsByInput"} => task' = task
       /\ ret'.op = "checkSolution" =>
             /\ task' = task
             /\ Len(ret'.submission.results) = Len(task.testSuite)
             /\ \A i \in 1..Len(task.testSuite) :
                   ret'.submission.results[i].isPassed = runTest(task.testSuite[i])]_vars

\* checked after the suite the task was made from has grown and been sorted
C10_Witness ==
    /\ ret.op = "checkSolution"
    /\ Len(ret.submission.results) = 1
    /\ \A s \in 1..Len(suites) :
          /\ Len(suites[s]) = 2
          /\ suites[s][2] = task.testSuite[1]

====
